---- MODULE Spec2Model ----
(***************************************************************************)
(* Draw.io MCP relay (index.ts, tool.ts, emitter_bus.ts): correlation of   *)
(* STDIO / HTTP requests with replies that browser extensions send over    *)
(* WebSocket connections.                                                  *)
(*                                                                         *)
(* The relay runs on the Node.js event loop: every handler (an HTTP        *)
(* request, a tool invocation, a WebSocket callback, a timer callback)     *)
(* runs to completion, so each is one atomic action.                       *)
(***************************************************************************)
EXTENDS Integers, Sequences, FiniteSets, TLC

(***************************************************************************)
(* Bounds of the model.                                                    *)
(***************************************************************************)
\* calls issued in a behaviour
MaxCalls == 2
\* WebSockets open at the same time
MaxConns == 2
\* handlers registered with bus.on_reply_from_extension
MaxHandlers == 2
\* fields of an object passed to strip_internal_fields
MaxFields == 3
\* requests that reach the extension
MaxMessages == 3
\* sockets of the bridge that are not closed yet
MaxSockets == 3
\* socket drops and restartMcpBridge() calls
MaxDisturbances == 3

(***************************************************************************)
(* Program constants.                                                      *)
(***************************************************************************)
StdioTimeoutMs == 30000
ToolsCallTimeoutMs == 25000
GenericTimeoutMs == 5000
TimeoutCode == -32000
UnhandledCode == -32001

bus_request_stream == "BUS_REQUEST"
bus_reply_stream == "BUS_REPLY"

(***************************************************************************)
(* JSON values.  An absent field is NoId / NoError / NoResult.             *)
(***************************************************************************)
NoId == "<absent>"
NoError == "<absent>"
NoResult == [absent |-> TRUE]

\* ids that callers and extensions use; two are enough for a collision
Ids == {"id-a", "id-b"}

\* JavaScript truthiness of an id / error string and of a result object
Truthy(s) == s # NoId /\ s # ""
TruthyResult(r) == r # NoResult

\* the result of get-selected-cell (webscript.js): no 'content' field
CellPayload == [id |-> "cell-1", geometry |-> <<10, 10, 40, 20>>]
\* a result already shaped as a CallToolResult
ContentPayload == [content |-> "cells", isError |-> FALSE]

InvalidJson == [valid |-> FALSE, method |-> "", id |-> NoId, result |-> NoResult, error |-> NoError]
Frame(method, id, result, error) ==
    [valid |-> TRUE, method |-> method, id |-> id, result |-> result, error |-> error]

\* WebSocket frames a connection can deliver to ws_handler.message:
\* malformed text, the handshake (with or without an id), and replies that
\* carry a result, an error or neither
WsMessages ==
    {InvalidJson}
    \cup {Frame("client-ready", id, NoResult, NoError) : id \in Ids \cup {NoId}}
    \cup {Frame("", id, r, NoError) : id \in Ids \cup {NoId}, r \in {NoResult, CellPayload, ContentPayload}}
    \cup {Frame("", id, NoResult, "Graph not ready") : id \in Ids}

\* the frames that matter for correlation: malformed text, the handshake,
\* and for every id (or none) a reply with a result
RelayFrames ==
    {InvalidJson}
    \cup {Frame("client-ready", id, NoResult, NoError) : id \in Ids}
    \cup {Frame("", id, CellPayload, NoError) : id \in Ids \cup {NoId}}

\* webscript.js: sendReply(id, result), the frame the extension writes
sendReply(id, result) == Frame("", id, result, NoError)

\* webscript.js: what the handlers pass to sendReply when they fail
ErrorPayload == [error |-> "Graph not ready"]

\* the frames by which the extension reports a failed request
ErrorFrames == {sendReply(id, ErrorPayload) : id \in Ids}

\* replies that carry nothing but an id, or not even that
BareFrames == {Frame("", id, NoResult, NoError) : id \in Ids \cup {NoId}}

\* tools of the catalog used as inputs of STDIO calls
CalledTools == {"add-rectangle", "get-selected-cell"}

\* HTTP bodies: a JSON-RPC envelope, or no body at all
NoBody == [body |-> FALSE, id |-> NoId, method |-> ""]
Envelope(id, method) == [body |-> TRUE, id |-> id, method |-> method]
\* envelopes that the /rpc handler puts on the bus
BusBodies == {Envelope(id, m) : id \in Ids, m \in {"tools/call", "get-selected-cell"}}
\* every body: also tools/list, a missing or empty id, no body
HttpBodies ==
    {NoBody}
    \cup {Envelope(id, m) : id \in Ids \cup {NoId, ""},
                            m \in {"tools/list", "tools/call", "get-selected-cell"}}

\* a tools/call envelope with its params: the tool it names and whether
\* the arguments satisfy that tool's parameter schema
ToolsCall(id, name, argsValid) ==
    [body |-> TRUE, id |-> id, method |-> "tools/call", name |-> name, argsValid |-> argsValid]
UnknownTool == "no-such-tool"
ToolsCallBodies ==
    {ToolsCall(id, "add-rectangle", v) : id \in Ids, v \in BOOLEAN}
    \cup {ToolsCall(id, UnknownTool, TRUE) : id \in Ids}
\* everything that is posted to /rpc
RpcBodies == HttpBodies \cup ToolsCallBodies

\* return values of uWS ws.send(): 1 (sent) and 2 (dropped)
SendOk == {"sent"}
SendAny == {"sent", "dropped"}

(***************************************************************************)
(* The tool catalog, in registration order.                                *)
(***************************************************************************)
ToolDefinitions ==
    << "get-selected-cell", "add-rectangle", "add-edge", "delete-cell-by-id",
       "get-shape-categories", "get-shapes-in-category", "get-shape-by-name",
       "get-all-cells-detailed", "get-edge-labels", "add-cell-of-shape" >>

VARIABLES
    calls,        \* the promises created so far, one record per bus request
    listeners,    \* emitter.listeners(bus_reply_stream): call indices, in order
    conns,        \* the conns array of open WebSockets
    inbox,        \* per open WebSocket: the ws.send() calls made on it and their status
    files,        \* ids for which /tmp/mcp-response-<id>.json was written
    httpResponse, \* the last response /rpc sent without a bus round-trip
    toolRegistry, \* HTTP registry (tool names)
    serverTools   \* tools registered on the McpServer (STDIO)

VARIABLES
    busListeners, \* the handlers registered with bus.on_reply_from_extension: their event names
    invocations,  \* the calls of those handlers: which handler, for which emitted event
    obj,          \* the object passed to strip_internal_fields
    stripped,     \* what strip_internal_fields returned
    graph,        \* webscript.js: the editor's graph is known
    queue,        \* webscript.js: the requests waiting for the graph
    handled,      \* the requests passed to handleMsg, in that order
    received,     \* the calls whose request the extension has received
    wire,         \* the replies of the extension on their way to the server
    bridgeWs,     \* webscript.js: ws, the socket the bridge holds (0: none)
    isConnected,  \* webscript.js: isConnected
    sockets,      \* the state of every socket the bridge has created
    reconnects,   \* the pending setTimeout(connectWS, 3000) timers
    disturbances  \* the socket drops and restartMcpBridge() calls so far

relayVars == <<calls, listeners, conns, inbox, files, httpResponse, toolRegistry, serverTools>>
busVars == <<busListeners, invocations>>
stripVars == <<obj, stripped>>
\* what the handlers of index.ts never touch
extVars == <<graph, queue, handled, received, wire>>
bridgeVars == <<bridgeWs, isConnected, sockets, reconnects, disturbances>>
otherVars == <<busVars, stripVars, extVars, bridgeVars>>

vars == <<relayVars, otherVars>>

Range(s) == {s[i] : i \in DOMAIN s}

Pending == [kind |-> "pending"]
NoResponse == [kind |-> "none"]

(***************************************************************************)
(* Startup: registerTool for every tool definition.                        *)
(***************************************************************************)
\* mutant: the HTTP registry is not filled
registerTool_ServerOnly(reg, name) ==
    IF name \in reg.server
    THEN reg
    ELSE [server |-> reg.server \cup {name}, http |-> reg.http]

registerTool(reg, name) ==
    IF name \in reg.server
    THEN reg    \* server.tool() throws, toolRegistry[name] is not assigned
    ELSE [server |-> reg.server \cup {name}, http |-> reg.http \cup {name}]

RECURSIVE RegisterAll(_, _)
RegisterAll(reg, defs) ==
    IF defs = << >> THEN reg
    ELSE RegisterAll(registerTool(reg, Head(defs)), Tail(defs))

Startup == RegisterAll([server |-> {}, http |-> {}], ToolDefinitions)

(***************************************************************************)
(* Promises and timers.                                                    *)
(***************************************************************************)
\* mutant: a later resolve()/reject() replaces the outcome
Settle_Overwrite(call, o) == [call EXCEPT !.outcome = o]

\* resolve()/reject() of a promise that is already settled does nothing
Settle(call, o) == IF call.outcome = Pending THEN [call EXCEPT !.outcome = o] ELSE call

\* clearTimeout() of a timer that already fired does nothing
clearTimeout(call) ==
    IF call.timer = "armed" THEN [call EXCEPT !.timer = "cleared", !.remaining = 0] ELSE call

McpError(code, message) == [kind |-> "McpError", code |-> code, message |-> message]

\* mutant: the message does not name the tool
StdioTimeoutError_NoName(name) ==
    McpError("InternalError", <<"Timeout waiting for tool response for ", "">>)

\* tool.ts: the timeout callback of default_tool
StdioTimeoutError(name) ==
    McpError("InternalError", <<"Timeout waiting for tool response for ", name>>)

\* index.ts: the timeout callbacks of the /rpc handler
HttpTimeoutEnvelope(call) ==
    [kind |-> "envelope", jsonrpc |-> "2.0", id |-> call.id,
     error |-> IF call.kind = "tools/call"
               THEN [code |-> TimeoutCode, message |-> "Timeout waiting for tool response"]
               ELSE [code |-> UnhandledCode, message |-> "Unhandled method"]]

TimeoutOutcome(call) ==
    IF call.kind = "stdio" THEN StdioTimeoutError(call.method) ELSE HttpTimeoutEnvelope(call)

Deadline(kind) ==
    CASE kind = "stdio" -> StdioTimeoutMs
      [] kind = "tools/call" -> ToolsCallTimeoutMs
      [] OTHER -> GenericTimeoutMs

(***************************************************************************)
(* Reply listeners.                                                        *)
(***************************************************************************)
\* tool.ts: what default_tool resolves with for a reply without error
CallToolResult(name, response) ==
    [kind |-> "CallToolResult",
     value |-> [content |-> IF "content" \in DOMAIN response.result
                            THEN response.result.content
                            ELSE <<"Success: Tool ", name, " executed">>,
                isError |-> IF "isError" \in DOMAIN response.result
                            THEN response.result.isError
                            ELSE FALSE]]

\* tool.ts: handleReply, registered with emitter.on
handleReply(call, response) ==
    IF response.id # call.id THEN call
    ELSE IF Truthy(response.error)
         THEN Settle(clearTimeout(call), McpError("InternalError", response.error))
         ELSE Settle(clearTimeout(call), CallToolResult(call.method, response))

\* handleReply calls emitter.off on itself exactly when the id matches
handleReplyStays(call, response) == response.id # call.id

\* mutant: resolves with whatever reply comes first
rpcListener_AnyId(call, response) ==
    Settle(clearTimeout(call), [kind |-> "response", response |-> response])

\* mutant: clearTimeout() is called before the id is compared
rpcListener_ClearFirst(call, response) ==
    IF response.id = call.id
    THEN Settle(clearTimeout(call), [kind |-> "response", response |-> response])
    ELSE clearTimeout(call)

\* index.ts: the listener of the /rpc handler, registered with emitter.once
rpcListener(call, response) ==
    IF response.id = call.id
    THEN Settle(clearTimeout(call), [kind |-> "response", response |-> response])
    ELSE call

\* a once-listener is removed before it is invoked, whatever the event
rpcListenerStays(call, response) == FALSE

Listener(call, response) ==
    IF call.kind = "stdio" THEN handleReply(call, response) ELSE rpcListener(call, response)

ListenerStays(call, response) ==
    IF call.kind = "stdio" THEN handleReplyStays(call, response)
    ELSE rpcListenerStays(call, response)

\* emitter.emit(bus_reply_stream, response) with the calls cs and the
\* listeners ls: every registered listener runs
Dispatch(cs, ls, response) ==
    [calls |-> [i \in DOMAIN cs |->
                    IF i \in Range(ls) THEN Listener(cs[i], response) ELSE cs[i]],
     listeners |-> SelectSeq(ls, LAMBDA i : ListenerStays(cs[i], response))]

EmitReply(response) ==
    LET d == Dispatch(calls, listeners, response)
    IN  calls' = d.calls /\ listeners' = d.listeners

(***************************************************************************)
(* Broadcast of a request to the WebSocket connections.                    *)
(***************************************************************************)
\* mutant: only the first connection is sent the request
Broadcast_FirstOnly(c, status) ==
    /\ inbox' = [w \in DOMAIN inbox |->
                    IF conns # << >> /\ w = conns[1]
                    THEN Append(inbox[w], [call |-> c, status |-> status[w]])
                    ELSE inbox[w]]
    /\ UNCHANGED conns

\* conns.forEach((ws) => ws.send(...)): one send on every element of conns;
\* status[w] is what ws.send() returns on w.  conns is not modified.
Broadcast(c, status) ==
    /\ inbox' = [w \in DOMAIN inbox |->
                    IF w \in Range(conns)
                    THEN Append(inbox[w], [call |-> c, status |-> status[w]])
                    ELSE inbox[w]]
    /\ UNCHANGED conns

NewCall(kind, id, method) ==
    [kind |-> kind, id |-> id, method |-> method,
     outcome |-> Pending, timer |-> "armed", remaining |-> Deadline(kind)]

\* the request as it is emitted on bus_request_stream
RequestOf(call) ==
    [jsonrpc |-> "2.0", id |-> call.id, method |-> call.method]

\* no subscriber of bus_request_stream answers inside emit()
NoAnswer == [answered |-> FALSE]
\* a subscriber of bus_request_stream that emits the reply at once
AnswerOf(id, now) == IF now THEN sendReply(id, CellPayload) ELSE NoAnswer

\* setTimeout(...); emitter.on/once(bus_reply_stream, listener)
Register(cs, ls, call) ==
    [calls |-> Append(cs, call), listeners |-> Append(ls, Len(cs) + 1)]

\* emitter.emit(bus_request_stream, request): the subscribers run inside the
\* call; answer is the reply one of them emits before emit() returns
emit_request(cs, ls, answer) ==
    IF answer = NoAnswer THEN [calls |-> cs, listeners |-> ls] ELSE Dispatch(cs, ls, answer)

\* mutant: the request is published before the listener is registered
Submit_PublishFirst(cs, ls, call, answer) ==
    LET p == emit_request(cs, ls, answer)
    IN  Register(p.calls, p.listeners, call)

\* the body of the promise executor in default_tool and in the /rpc handler:
\* the timer, the listener, and then the request on the bus
Submit(cs, ls, call, answer) ==
    LET r == Register(cs, ls, call)
    IN  emit_request(r.calls, r.listeners, answer)

\* tool.ts: generateId() is Math.random().toString(36).substr(2, 9): any id
generateId == Ids

(***************************************************************************)
(* Actions.                                                                *)
(***************************************************************************)
\* tool.ts: the handler default_tool(name, context) returns; sync says
\* whether a subscriber may answer inside the emit of the request
StdioCallWith(tools, statuses, sync) ==
    /\ Len(calls) < MaxCalls
    /\ \E name \in tools \cap serverTools, id \in generateId,
          status \in [Range(conns) -> statuses], now \in sync :
        LET c == Len(calls) + 1
            s == Submit(calls, listeners, NewCall("stdio", id, name), AnswerOf(id, now))
        IN /\ calls' = s.calls
           /\ listeners' = s.listeners
           /\ Broadcast(c, status)
    /\ UNCHANGED <<files, httpResponse, toolRegistry, serverTools, otherVars>>

\* the program as it runs: the only subscriber of bus_request_stream is the
\* broadcast, and its replies come back as WebSocket frames
StdioCall(tools, statuses) == StdioCallWith(tools, statuses, {FALSE})

\* mutant: an envelope without an id is handled like any other
MissingId_Never(json) == FALSE

\* index.ts: !json || !json.id
MissingId(json) == ~json.body \/ ~Truthy(json.id)

\* index.ts: fastify.post("/rpc"), for the request body json
RpcWith(json, statuses, sync) ==
    IF MissingId(json)
    THEN /\ httpResponse' = [kind |-> "http", status |-> 400, error |-> "Missing ID"]
         /\ UNCHANGED <<calls, listeners, inbox, conns, files, toolRegistry, serverTools, otherVars>>
    ELSE IF json.method = "tools/list"
    THEN /\ httpResponse' = [kind |-> "envelope", jsonrpc |-> "2.0", id |-> json.id,
                             result |-> toolRegistry]
         /\ UNCHANGED <<calls, listeners, inbox, conns, files, toolRegistry, serverTools, otherVars>>
    ELSE /\ Len(calls) < MaxCalls
         /\ \E status \in [Range(conns) -> statuses], now \in sync :
             LET c == Len(calls) + 1
                 s == Submit(calls, listeners,
                        NewCall(IF json.method = "tools/call" THEN "tools/call" ELSE "other",
                                json.id, json.method),
                        AnswerOf(json.id, now))
             IN /\ calls' = s.calls
                /\ listeners' = s.listeners
                /\ Broadcast(c, status)
         /\ UNCHANGED <<files, httpResponse, toolRegistry, serverTools, otherVars>>

Rpc(json, statuses) == RpcWith(json, statuses, {FALSE})

\* a request is posted to /rpc
HttpRpc(bodies, statuses) ==
    \E json \in bodies : Rpc(json, statuses)

\* the socket uWS hands to ws_handler.open: the first one not in use
FreeWs == CHOOSE w \in DOMAIN inbox :
              /\ w \notin Range(conns)
              /\ \A v \in DOMAIN inbox : v \notin Range(conns) => w <= v

\* index.ts: ws_handler.open
WsOpen ==
    /\ Len(conns) < MaxConns
    /\ conns' = Append(conns, FreeWs)
    /\ UNCHANGED <<calls, listeners, inbox, files, httpResponse, toolRegistry, serverTools, otherVars>>

\* mutant: a disconnect empties the conns array
WsClose_All ==
    /\ conns # << >>
    /\ conns' = << >>
    /\ inbox' = [w \in DOMAIN inbox |-> << >>]
    /\ UNCHANGED <<calls, listeners, files, httpResponse, toolRegistry, serverTools, otherVars>>

\* index.ts: ws_handler.close; the socket and what was written to it are gone
WsClose ==
    /\ \E ws \in Range(conns) :
        /\ conns' = SelectSeq(conns, LAMBDA w : w # ws)
        /\ inbox' = [inbox EXCEPT ![ws] = << >>]
    /\ UNCHANGED <<calls, listeners, files, httpResponse, toolRegistry, serverTools, otherVars>>

\* mutant: the handshake is dispatched like a reply
Receive_NoHandshake(msg) ==
    /\ IF ~msg.valid
       THEN UNCHANGED <<calls, listeners, files>>
       ELSE /\ EmitReply(msg)
            /\ files' = IF Truthy(msg.id) /\ TruthyResult(msg.result)
                        THEN files \cup {msg.id} ELSE files
    /\ UNCHANGED <<conns, inbox, httpResponse, toolRegistry, serverTools, otherVars>>

\* mutant: JSON.parse is outside the try block; the exception ends the socket
Receive_ParseThrows(msg) ==
    IF ~msg.valid
    THEN /\ conns' = << >>
         /\ inbox' = [w \in DOMAIN inbox |-> << >>]
         /\ UNCHANGED <<calls, listeners, files, httpResponse, toolRegistry, serverTools, otherVars>>
    ELSE /\ IF msg.method = "client-ready"
            THEN UNCHANGED <<calls, listeners, files>>
            ELSE /\ EmitReply(msg)
                 /\ files' = IF Truthy(msg.id) /\ TruthyResult(msg.result)
                             THEN files \cup {msg.id} ELSE files
         /\ UNCHANGED <<conns, inbox, httpResponse, toolRegistry, serverTools, otherVars>>

\* index.ts: ws_handler.message, for the frame msg
OnMessage(msg) ==
    /\ IF ~msg.valid \/ msg.method = "client-ready"
       THEN UNCHANGED <<calls, listeners, files>>
       ELSE /\ EmitReply(msg)
            /\ files' = IF Truthy(msg.id) /\ TruthyResult(msg.result)
                        THEN files \cup {msg.id} ELSE files
    /\ UNCHANGED <<httpResponse, toolRegistry, serverTools>>

Receive(msg) ==
    /\ OnMessage(msg)
    /\ UNCHANGED <<conns, inbox, otherVars>>

\* a frame arrives on an open connection
WsMessage(frames) ==
    \E ws \in Range(conns), msg \in frames : Receive(msg)

\* webscript.js connectWS: the extension holds one socket, and opens the
\* next one after the previous one is closed
ExtensionConnects ==
    /\ conns = << >>
    /\ WsOpen

\* the running timers, and the time left on the one that expires first
Armed == {c \in DOMAIN calls : calls[c].timer = "armed"}
NextExpiry == CHOOSE d \in {calls[c].remaining : c \in Armed} :
                  \A c \in Armed : d <= calls[c].remaining

\* the setTimeout callbacks of default_tool and of the /rpc handler: time
\* passes until the timer of call c, the first to expire, runs its callback
TimerFire ==
    /\ \E c \in Armed :
        /\ calls[c].remaining = NextExpiry
        /\ calls' = [i \in DOMAIN calls |->
                        IF i = c
                        THEN [Settle(calls[c], TimeoutOutcome(calls[c]))
                                EXCEPT !.timer = "fired", !.remaining = 0]
                        ELSE IF i \in Armed
                        THEN [calls[i] EXCEPT !.remaining = @ - NextExpiry]
                        ELSE calls[i]]
    /\ UNCHANGED <<listeners, conns, inbox, files, httpResponse, toolRegistry, serverTools, otherVars>>

\* index.ts: the registerTool calls run one after the other at module load
Unregistered == {i \in DOMAIN ToolDefinitions : ToolDefinitions[i] \notin serverTools}
Started == Unregistered = {}
RegisterNext ==
    /\ ~Started
    /\ LET i == CHOOSE k \in Unregistered : \A j \in Unregistered : k <= j
           reg == registerTool([server |-> serverTools, http |-> toolRegistry],
                               ToolDefinitions[i])
       IN /\ serverTools' = reg.server
          /\ toolRegistry' = reg.http
    /\ UNCHANGED <<calls, listeners, conns, inbox, files, httpResponse, otherVars>>

\* no handler is registered on the bus, strip_internal_fields is not called
NotCalled == [called |-> FALSE]

\* webscript.js before init(): no graph, no socket
InitExtension ==
    /\ graph = FALSE
    /\ queue = << >>
    /\ handled = << >>
    /\ received = {}
    /\ wire = << >>
    /\ bridgeWs = 0
    /\ isConnected = FALSE
    /\ sockets = [s \in 1..MaxSockets |-> "free"]
    /\ reconnects = 0
    /\ disturbances = 0

InitOthers ==
    /\ busListeners = << >>
    /\ invocations = {}
    /\ obj = << >>
    /\ stripped = NotCalled
    /\ InitExtension

\* the relay after the module's top level has run
InitRelay ==
    /\ calls = << >>
    /\ listeners = << >>
    /\ conns = << >>
    /\ inbox = [w \in 1..MaxConns |-> << >>]
    /\ files = {}
    /\ httpResponse = NoResponse
    /\ toolRegistry = Startup.http
    /\ serverTools = Startup.server

Init == InitOthers /\ InitRelay

\* the relay: calls that go over the bus, replies and timers
Next ==
    \/ StdioCall(CalledTools, SendOk)
    \/ HttpRpc(BusBodies, SendOk)
    \/ ExtensionConnects
    \/ WsClose
    \/ WsMessage(RelayFrames)
    \/ TimerFire

Spec == Init /\ [][Next]_vars

\* the relay with a subscriber of bus_request_stream that may answer inside
\* the emit of the request
SyncFrames == {InvalidJson} \cup {sendReply(id, CellPayload) : id \in Ids}

NextSync ==
    \/ StdioCallWith(CalledTools, SendOk, BOOLEAN)
    \/ \E json \in BusBodies : RpcWith(json, SendOk, BOOLEAN)
    \/ ExtensionConnects
    \/ WsClose
    \/ WsMessage(SyncFrames)
    \/ TimerFire

SpecSync == Init /\ [][NextSync]_vars

\* the relay under time: the replies are bare {id} envelopes, for every id
\* and for none, so that no scratch file is written
NextTimed ==
    \/ StdioCall({"add-rectangle"}, SendOk)
    \/ HttpRpc(BusBodies, SendOk)
    \/ ExtensionConnects
    \/ WsClose
    \/ WsMessage(BareFrames)
    \/ TimerFire

\* time passes, and the event loop runs the callback of each timer that expires
FairSpec == Init /\ [][NextTimed]_vars /\ WF_vars(TimerFire)

\* the WebSocket pool: broadcasts whose sends may be dropped
NextPool ==
    \/ StdioCall({"add-rectangle"}, SendAny)
    \/ HttpRpc(BusBodies, SendAny)
    \/ WsOpen
    \/ WsClose

SpecPool == Init /\ [][NextPool]_vars

\* the relay when the extension answers every request with a failure
NextErrors ==
    \/ StdioCall({"get-selected-cell"}, SendOk)
    \/ HttpRpc(BusBodies, SendOk)
    \/ ExtensionConnects
    \/ WsClose
    \/ WsMessage(ErrorFrames)
    \/ TimerFire

SpecErrors == Init /\ [][NextErrors]_vars

\* connections come and go while calls that no extension answers are pending
NextDisconnect ==
    \/ StdioCall({"add-rectangle"}, SendOk)
    \/ HttpRpc({Envelope(id, "tools/call") : id \in Ids}, SendOk)
    \/ WsOpen
    \/ WsClose
    \/ TimerFire

SpecDisconnect == Init /\ [][NextDisconnect]_vars /\ WF_vars(TimerFire)

\* the process from module load: nothing is registered yet
InitStartup ==
    /\ InitOthers
    /\ calls = << >>
    /\ listeners = << >>
    /\ conns = << >>
    /\ inbox = [w \in 1..MaxConns |-> << >>]
    /\ files = {}
    /\ httpResponse = NoResponse
    /\ toolRegistry = {}
    /\ serverTools = {}

\* the HTTP surface: the module registers its tools, and then the event
\* loop serves /rpc, the WebSocket and the timers
NextHttp ==
    \/ RegisterNext
    \/ Started /\ HttpRpc(RpcBodies, SendOk)
    \/ Started /\ ExtensionConnects
    \/ Started /\ WsClose
    \/ Started /\ WsMessage(BareFrames)
    \/ Started /\ TimerFire

SpecHttp == InitStartup /\ [][NextHttp]_vars

(***************************************************************************)
(* emitter_bus.ts: create_bus.                                             *)
(***************************************************************************)
EventNames == {"event1", "event2"}
\* what is emitted on bus_reply_stream: a reply with its __event, or nothing
NoData == [event |-> "<undefined>"]
BusReplies == {[event |-> e] : e \in EventNames \cup {"other_event"}} \cup {NoData}

\* bus.on_reply_from_extension(event_name, listener)
on_reply_from_extension(event_name) ==
    /\ Len(busListeners) < MaxHandlers
    /\ busListeners' = Append(busListeners, event_name)
    /\ UNCHANGED <<invocations, relayVars, stripVars, extVars, bridgeVars>>

\* emitter_listener of handler i: if (data) { data.__event = event_name;
\* listener(data) }; the calls of the listener it makes
emitter_listener(i, data) ==
    IF data # NoData
    THEN {[handler |-> i, emitted |-> data.event, seen |-> busListeners[i]]}
    ELSE {}

\* emitter.emit(bus_reply_stream, data) with the handlers of the bus
EmitBusReply(data) ==
    /\ invocations' = invocations \cup UNION {emitter_listener(i, data) : i \in DOMAIN busListeners}
    /\ UNCHANGED <<busListeners, relayVars, stripVars, extVars, bridgeVars>>

NextBus ==
    \/ \E e \in EventNames : on_reply_from_extension(e)
    \/ \E data \in BusReplies : EmitBusReply(data)

SpecBus == Init /\ [][NextBus]_vars

(***************************************************************************)
(* events.ts: strip_internal_fields.  A key is the sequence of its         *)
(* characters, an object a function from its keys to their values.         *)
(***************************************************************************)
Keys == { <<"_", "_", "a">>, <<"_", "_">>, <<"_", "a">>, <<"a">>,
          <<"a", "_", "_">>, <<"_", "_", "_">> }
FieldValues == {1, 2}
Objects ==
    UNION {[ks -> FieldValues] : ks \in {x \in SUBSET Keys : Cardinality(x) <= MaxFields}}

\* mutant: the prefix is matched on its first character only
startsWith_FirstChar(key, prefix) ==
    Len(key) >= 1 /\ key[1] = prefix[1]

\* String.prototype.startsWith
startsWith(key, prefix) ==
    /\ Len(key) >= Len(prefix)
    /\ SubSeq(key, 1, Len(prefix)) = prefix

\* mutant: the internal fields are deleted from the argument itself
strip_internal_fields_Delete(o) ==
    LET kept == {key \in DOMAIN o : ~startsWith(key, <<"_", "_">>)}
    IN  [result |-> [key \in kept |-> o[key]], obj |-> [key \in kept |-> o[key]]]

\* const result = {}; for (const key in obj) if (!key.startsWith("__"))
\* result[key] = obj[key]; return result: the result, and obj after the call
strip_internal_fields(o) ==
    LET kept == {key \in DOMAIN o : ~startsWith(key, <<"_", "_">>)}
    IN  [result |-> [key \in kept |-> o[key]], obj |-> o]

\* a call strip_internal_fields(obj)
StripCall ==
    /\ stripped = NotCalled
    /\ LET r == strip_internal_fields(obj)
       IN  /\ stripped' = [called |-> TRUE, arg |-> obj, result |-> r.result]
           /\ obj' = r.obj
    /\ UNCHANGED <<relayVars, busVars, extVars, bridgeVars>>

\* the caller builds another object
NextObject ==
    /\ stripped # NotCalled
    /\ obj' \in Objects
    /\ stripped' = NotCalled
    /\ UNCHANGED <<relayVars, busVars, extVars, bridgeVars>>

InitStrip ==
    /\ InitRelay
    /\ busListeners = << >>
    /\ invocations = {}
    /\ obj \in Objects
    /\ stripped = NotCalled
    /\ InitExtension

NextStrip == StripCall \/ NextObject

SpecStrip == InitStrip /\ [][NextStrip]_vars

(***************************************************************************)
(* webscript.js, the bridge with the full tool set (initMCPBridge): the    *)
(* request queue and handleMsg.                                            *)
(***************************************************************************)
\* a request as the extension parses it; name is params.name of a
\* tools/call envelope, typed says that params.shape_name is a string
Payload(id, method, name, typed) ==
    [id |-> id, method |-> method, name |-> name, typed |-> typed]

\* the requests of the STDIO tools: their arguments have passed the schema
PayloadOf(call) == Payload(call.id, call.method, "", TRUE)

\* requests posted to /rpc reach the extension with whatever params they carry
ExtRequests ==
    {Payload(id, m, "", t) : id \in Ids, m \in {"add-rectangle", "add-cell-of-shape"},
                            t \in BOOLEAN}

\* the methods handleMsg has a branch for
HandledMethods ==
    {"add-rectangle", "add-edge", "get-selected-cell", "get-shape-categories",
     "add-cell-of-shape", "get-all-cells-detailed", "get-edge-labels"}

NoFrame == [sent |-> FALSE]

\* function sendReply(id, result) of the bridge: the frame it sends, if any
bridgeSendReply(id, result, connected) ==
    IF ~Truthy(id) \/ ~connected THEN NoFrame ELSE sendReply(id, result)

\* handleMsg(payload) with the graph g: the frame it sends and whether it
\* throws.  params.shape_name?.toLowerCase() throws when shape_name is
\* there and is not a string; a method without a branch falls through.
handleMsg(payload, g, connected) ==
    LET method == IF payload.method = "tools/call" THEN payload.name ELSE payload.method
    IN  IF method \notin HandledMethods
        THEN [threw |-> FALSE, frame |-> NoFrame]
        ELSE IF method = "get-shape-categories"
        THEN [threw |-> FALSE, frame |-> bridgeSendReply(payload.id, ContentPayload, connected)]
        ELSE IF ~g
        THEN [threw |-> FALSE, frame |-> bridgeSendReply(payload.id, ErrorPayload, connected)]
        ELSE IF method = "add-cell-of-shape" /\ ~payload.typed
        THEN [threw |-> TRUE, frame |-> NoFrame]
        ELSE [threw |-> FALSE, frame |-> bridgeSendReply(payload.id, CellPayload, connected)]

\* one call handleMsg(payload) with the graph ready: the log and the wire after it
HandleOne(h, w, payload, connected) ==
    LET r == handleMsg(payload, TRUE, connected)
    IN  [handled |-> Append(h, payload),
         wire |-> IF r.frame = NoFrame THEN w ELSE Append(w, r.frame),
         threw |-> r.threw]

\* flushQueue(): while (queue.length) handleMsg(queue.shift()); an exception
\* of handleMsg leaves the loop with the rest of the queue in place
RECURSIVE flushQueue(_, _, _, _)
flushQueue(q, h, w, connected) ==
    IF q = << >> THEN [queue |-> q, handled |-> h, wire |-> w]
    ELSE LET r == HandleOne(h, w, Head(q), connected)
         IN  IF r.threw
             THEN [queue |-> Tail(q), handled |-> r.handled, wire |-> r.wire]
             ELSE flushQueue(Tail(q), r.handled, r.wire, connected)

\* ws.onmessage: if (graph) handleMsg(msg); else queue.push(msg)
onmessage(payload) ==
    IF graph
    THEN LET r == HandleOne(handled, wire, payload, TRUE)
         IN  /\ handled' = r.handled
             /\ wire' = r.wire
             /\ UNCHANGED <<graph, queue>>
    ELSE /\ queue' = Append(queue, payload)
         /\ UNCHANGED <<graph, handled, wire>>

\* a request arrives on the socket of the extension
Arrive(payload) ==
    /\ Len(queue) + Len(handled) < MaxMessages
    /\ onmessage(payload)
    /\ UNCHANGED <<received, relayVars, busVars, stripVars, bridgeVars>>

\* the request that is next on the socket: the oldest one the server has
\* sent on the open connection and the extension has not taken yet
Deliverable ==
    {c \in DOMAIN calls \ received :
        \E w \in Range(conns) : \E k \in DOMAIN inbox[w] :
            inbox[w][k].call = c /\ inbox[w][k].status = "sent"}
NextRequest == CHOOSE c \in Deliverable : \A d \in Deliverable : c <= d

\* ws.onmessage for the next request of the server
ExtensionReceives ==
    /\ Deliverable # {}
    /\ onmessage(PayloadOf(calls[NextRequest]))
    /\ received' = received \cup {NextRequest}
    /\ UNCHANGED <<relayVars, busVars, stripVars, bridgeVars>>

\* EditorUi.init hook / pollEditorUi: graph = ...; onGraphReady() calls flushQueue()
GraphReady(connected) ==
    /\ ~graph
    /\ graph' = TRUE
    /\ LET f == flushQueue(queue, handled, wire, connected)
       IN  queue' = f.queue /\ handled' = f.handled /\ wire' = f.wire
    /\ UNCHANGED <<received, relayVars, busVars, stripVars, bridgeVars>>

\* ws.onopen: setTimeout(flushQueue, 200)
FlushTimer(connected) ==
    /\ IF graph
       THEN LET f == flushQueue(queue, handled, wire, connected)
            IN  queue' = f.queue /\ handled' = f.handled /\ wire' = f.wire
       ELSE UNCHANGED <<queue, handled, wire>>
    /\ UNCHANGED <<graph, received, relayVars, busVars, stripVars, bridgeVars>>

\* the socket of the extension closes: ws_handler.close on the server, and
\* the frames in flight in both directions are gone
ExtSocketCloses ==
    /\ conns # << >>
    /\ conns' = << >>
    /\ inbox' = [w \in DOMAIN inbox |-> << >>]
    /\ wire' = << >>
    /\ UNCHANGED <<calls, listeners, files, httpResponse, toolRegistry, serverTools>>
    /\ UNCHANGED <<graph, queue, handled, received, busVars, stripVars, bridgeVars>>

\* index.ts: ws_handler.message for the next reply of the extension
ServerReceives ==
    /\ wire # << >>
    /\ conns # << >>
    /\ OnMessage(Head(wire))
    /\ wire' = Tail(wire)
    /\ UNCHANGED <<conns, inbox>>
    /\ UNCHANGED <<graph, queue, handled, received, busVars, stripVars, bridgeVars>>

\* the extension alone: requests arrive before and after the graph is ready
NextQueue ==
    \/ \E payload \in ExtRequests : Arrive(payload)
    \/ \E connected \in BOOLEAN : GraphReady(connected)
    \/ \E connected \in BOOLEAN : FlushTimer(connected)

SpecQueue == Init /\ [][NextQueue]_vars

\* the relay with the extension at the other end of the WebSocket
NextExtension ==
    \/ StdioCall(Range(ToolDefinitions), SendOk)
    \/ ExtensionConnects
    \/ ExtSocketCloses
    \/ ExtensionReceives
    \/ GraphReady(conns # << >>)
    \/ FlushTimer(conns # << >>)
    \/ ServerReceives
    \/ TimerFire

SpecExtension == Init /\ [][NextExtension]_vars

(***************************************************************************)
(* webscript.js, the first bridge: connectWS, the socket handlers and      *)
(* restartMcpBridge.  A socket is "connecting", "open", "closing" (close() *)
(* was called, its close event is due) or "free" (closed, or never made).  *)
(***************************************************************************)
Live(s) == s # 0 /\ sockets[s] \in {"connecting", "open"}

\* if (ws) try { ws.close() } catch {}: close() of a closed socket does nothing
AfterClose == IF Live(bridgeWs) THEN [sockets EXCEPT ![bridgeWs] = "closing"] ELSE sockets

\* connectWS(): closes the socket it holds and makes the next one
connectWS ==
    \E s \in DOMAIN sockets :
        /\ AfterClose[s] = "free"
        /\ \A t \in DOMAIN sockets : AfterClose[t] = "free" => s <= t
        /\ sockets' = [AfterClose EXCEPT ![s] = "connecting"]
        /\ bridgeWs' = s

\* init() at the end of the script
BridgeInit ==
    /\ bridgeWs = 0
    /\ connectWS
    /\ UNCHANGED <<isConnected, reconnects, disturbances, extVars, relayVars, busVars, stripVars>>

\* window.restartMcpBridge()
restartMcpBridge ==
    /\ bridgeWs # 0
    /\ disturbances < MaxDisturbances
    /\ disturbances' = disturbances + 1
    /\ connectWS
    /\ UNCHANGED <<isConnected, reconnects, extVars, relayVars, busVars, stripVars>>

\* the server accepts the connection: ws.onopen of socket s
SocketOpens(s) ==
    /\ sockets[s] = "connecting"
    /\ sockets' = [sockets EXCEPT ![s] = "open"]
    /\ isConnected' = TRUE
    /\ UNCHANGED <<bridgeWs, reconnects, disturbances, extVars, relayVars, busVars, stripVars>>

\* ws.onclose of socket s: isConnected = false; setTimeout(connectWS, 3000)
onclose(s) ==
    /\ sockets' = [sockets EXCEPT ![s] = "free"]
    /\ isConnected' = FALSE
    /\ reconnects' = reconnects + 1

\* the close event of a socket the bridge has closed
SocketClosed(s) ==
    /\ sockets[s] = "closing"
    /\ onclose(s)
    /\ UNCHANGED <<bridgeWs, disturbances, extVars, relayVars, busVars, stripVars>>

\* the network drops an open socket
SocketDrops(s) ==
    /\ sockets[s] = "open"
    /\ disturbances < MaxDisturbances
    /\ disturbances' = disturbances + 1
    /\ onclose(s)
    /\ UNCHANGED <<bridgeWs, extVars, relayVars, busVars, stripVars>>

\* a setTimeout(connectWS, 3000) timer runs
ReconnectTimer ==
    /\ reconnects > 0
    /\ reconnects' = reconnects - 1
    /\ connectWS
    /\ UNCHANGED <<isConnected, disturbances, extVars, relayVars, busVars, stripVars>>

NextBridge ==
    \/ BridgeInit
    \/ restartMcpBridge
    \/ \E s \in DOMAIN sockets : SocketOpens(s)
    \/ \E s \in DOMAIN sockets : SocketClosed(s)
    \/ \E s \in DOMAIN sockets : SocketDrops(s)
    \/ ReconnectTimer

\* the server accepts every connection and closes none; events and timers
\* that are due do happen
SpecBridge ==
    /\ Init /\ [][NextBridge]_vars
    /\ WF_vars(BridgeInit)
    /\ WF_vars(\E s \in DOMAIN sockets : SocketOpens(s))
    /\ WF_vars(\E s \in DOMAIN sockets : SocketClosed(s))
    /\ WF_vars(ReconnectTimer)

(***************************************************************************)
(* Vocabulary of the properties.                                           *)
(***************************************************************************)
IsReply(msg) == msg.valid /\ msg.method # "client-ready"
Awaiting(call) == call.outcome = Pending /\ call.timer = "armed"
ReplyOutcome(msg) == [kind |-> "response", response |-> msg]
ResolvedByOwnReply(call) ==
    /\ call.outcome.kind = "response"
    /\ call.outcome.response.id = call.id
TimedOut(call) == call.timer = "fired" /\ call.outcome = TimeoutOutcome(call)
Status(call) ==
    IF call.outcome = Pending THEN "AWAITING_REPLY"
    ELSE IF call.outcome = TimeoutOutcome(call) THEN "TIMED_OUT"
    ELSE "RESOLVED"
Sends(w, c) == {k \in DOMAIN inbox[w] : inbox[w][k].call = c}

(***************************************************************************)
(* C1: two HTTP tools/call requests with distinct ids are pending          *)
(* together; when the reply of the first arrives after the second was      *)
(* resolved by its own reply (and before the first one's deadline), the    *)
(* first request resolves with that reply.                                 *)
(***************************************************************************)
C1_BothResolve ==
    [][\A msg \in RelayFrames : \A c1, c2 \in DOMAIN calls :
          ( /\ Receive(msg) /\ IsReply(msg)
            /\ calls[c1].kind = "tools/call" /\ calls[c2].kind = "tools/call"
            /\ calls[c1].id # calls[c2].id
            /\ Awaiting(calls[c1]) /\ msg.id = calls[c1].id
            /\ ResolvedByOwnReply(calls[c2]) )
          => calls'[c1].outcome = ReplyOutcome(msg)]_vars

(***************************************************************************)
(* C2: a reply whose id is id1 never resolves or rejects a pending call    *)
(* whose id is id2 # id1, on STDIO and on HTTP: the outcome of every call  *)
(* with another id is the same before and after the delivery.              *)
(***************************************************************************)
C2_NoCrossTalk ==
    [][\A msg \in RelayFrames :
          (IsReply(msg) /\ Receive(msg))
          => \A c \in DOMAIN calls :
                msg.id # calls[c].id => calls'[c].outcome = calls[c].outcome]_vars

\* a call was resolved by a reply while a call with another id is still pending
C2_Witness ==
    \E c1, c2 \in DOMAIN calls :
        /\ calls[c1].id # calls[c2].id
        /\ calls[c1].kind = "stdio" /\ calls[c2].kind # "stdio"
        /\ Status(calls[c1]) = "RESOLVED"
        /\ Awaiting(calls[c2])

(***************************************************************************)
(* C3: a reply that arrives after its request timed out (and that no       *)
(* pending call is waiting for) has no effect: every call keeps its        *)
(* outcome and its timer, and every pending call keeps its waiter.         *)
(***************************************************************************)
Stale(msg) ==
    /\ \E c \in DOMAIN calls : calls[c].id = msg.id /\ TimedOut(calls[c])
    /\ \A c \in DOMAIN calls : Awaiting(calls[c]) => calls[c].id # msg.id

C3_StaleReplyNoEffect ==
    [][\A msg \in RelayFrames :
          (Receive(msg) /\ IsReply(msg) /\ Stale(msg))
          => /\ calls' = calls
             /\ \A c \in Range(listeners) : Awaiting(calls[c]) => c \in Range(listeners')]_vars

(***************************************************************************)
(* C4: at most one pending waiter is registered per request id; stated    *)
(* for the pairs of calls of which at least one came over HTTP, where the  *)
(* caller chooses the id.                                                  *)
(***************************************************************************)
C4_OneWaiterPerId ==
    \A c1, c2 \in Range(listeners) :
        ( /\ c1 # c2 /\ Awaiting(calls[c1]) /\ Awaiting(calls[c2])
          /\ (calls[c1].kind # "stdio" \/ calls[c2].kind # "stdio") )
        => calls[c1].id # calls[c2].id

(***************************************************************************)
(* C5: the listeners registered on the reply stream are exactly those of   *)
(* the calls that still await a reply.                                     *)
(***************************************************************************)
C5_ListenersArePending ==
    Range(listeners) = {c \in DOMAIN calls : calls[c].outcome = Pending}

(***************************************************************************)
(* C6: every call put on the bus is answered, and not later than its       *)
(* deadline: while a call is unanswered its timer is running and the time  *)
(* elapsed since the call is at most 30 s (STDIO), 25 s (tools/call) or    *)
(* 5 s (other method); and every call is eventually answered, whatever     *)
(* the connections send or do not send.                                    *)
(***************************************************************************)
C6_DeadlineMs(kind) ==
    CASE kind = "stdio" -> 30000
      [] kind = "tools/call" -> 25000
      [] kind = "other" -> 5000

C6_Elapsed(call) == C6_DeadlineMs(call.kind) - call.remaining

C6_AnsweredByDeadline ==
    /\ [](\A c \in DOMAIN calls :
            calls[c].outcome = Pending
            => /\ calls[c].timer = "armed"
               /\ C6_Elapsed(calls[c]) \in 0..C6_DeadlineMs(calls[c].kind))
    /\ \A c \in 1..MaxCalls :
            (c \in DOMAIN calls) ~> (c \in DOMAIN calls /\ calls[c].outcome # Pending)

\* a call got no reply for its id and was answered by its timer, on time,
\* although its listener had been consumed by a reply for another id
C6_Witness ==
    \E c \in DOMAIN calls :
        /\ calls[c].kind = "tools/call"
        /\ TimedOut(calls[c])
        /\ calls[c].remaining = 0
        /\ c \notin Range(listeners)
        /\ conns = << >>

(***************************************************************************)
(* C7: a terminal state is final.  Once a call is RESOLVED or TIMED_OUT    *)
(* no later reply and no timer changes its outcome, and the request is     *)
(* never sent again: it is sent at most once on a connection, and only in  *)
(* the step that creates the call.                                         *)
(***************************************************************************)
C7_TerminalIsFinal ==
    [][\A c \in DOMAIN calls :
          /\ Status(calls[c]) # "AWAITING_REPLY" => calls'[c].outcome = calls[c].outcome
          /\ Status(calls[c]) = "TIMED_OUT" => calls[c].timer = "fired"
          /\ \A w \in DOMAIN inbox :
                /\ Cardinality(Sends(w, c)) <= 1
                /\ {k \in DOMAIN inbox'[w] : inbox'[w][k].call = c} \subseteq Sends(w, c)]_vars

\* a STDIO call timed out and then a reply with its id arrived (its listener
\* is gone); a second call was resolved and its timer cleared
C7_Witness ==
    \E c1, c2 \in DOMAIN calls :
        /\ calls[c1].kind = "stdio"
        /\ Status(calls[c1]) = "TIMED_OUT"
        /\ c1 \notin Range(listeners)
        /\ Status(calls[c2]) = "RESOLVED"
        /\ calls[c2].timer = "cleared"

(***************************************************************************)
(* C8: in a broadcast every member of the ConnectionSet is sent the        *)
(* request, also when the send fails on another member, and a member on    *)
(* which the send fails is removed from the ConnectionSet.                 *)
(***************************************************************************)
C8_FailedSendRemoves ==
    [][Len(calls') = Len(calls) + 1
       => \A w \in Range(conns) :
            LET c == Len(calls')
                sent == \E k \in DOMAIN inbox'[w] :
                            inbox'[w][k] = [call |-> c, status |-> "sent"]
            IN sent \/ w \notin Range(conns')]_vars

(***************************************************************************)
(* C9: publishing a request while the ConnectionSet is empty raises        *)
(* nothing and leaves the call pending with its 30 s timer and its waiter; *)
(* a STDIO call that no reply ends, ends when the 30 s have elapsed, with  *)
(* the internal error "Timeout waiting for tool response for <tool>".      *)
(***************************************************************************)
C9_TimeoutNamesTool ==
    [][/\ (conns = << >> /\ Len(calls') = Len(calls) + 1)
          => LET c == Len(calls')
             IN /\ Awaiting(calls'[c])
                /\ c \in Range(listeners')
                /\ calls'[c].kind = "stdio" => calls'[c].remaining = 30000
                /\ inbox' = inbox /\ conns' = conns
       /\ \A c \in DOMAIN calls :
            ( /\ calls[c].kind = "stdio"
              /\ calls[c].outcome = Pending /\ calls'[c].outcome # Pending
              /\ ~ \E msg \in RelayFrames : IsReply(msg) /\ Receive(msg) )
            => /\ calls'[c].remaining = 0 /\ calls'[c].timer = "fired"
               /\ calls'[c].outcome =
                    [kind |-> "McpError", code |-> "InternalError",
                     message |-> <<"Timeout waiting for tool response for ", calls[c].method>>]]_vars

\* add-rectangle was called with no connection open and no reply with its
\* id came (its listener is still registered): it ended with the timeout error
C9_Witness ==
    /\ conns = << >>
    /\ \A w \in DOMAIN inbox : inbox[w] = << >>
    /\ \E c \in DOMAIN calls :
        /\ calls[c].kind = "stdio" /\ calls[c].method = "add-rectangle"
        /\ calls[c].timer = "fired" /\ calls[c].remaining = 0
        /\ c \in Range(listeners)
        /\ calls[c].outcome = StdioTimeoutError("add-rectangle")

(***************************************************************************)
(* C10: with one extension connected that was sent the request, a reply    *)
(* {id, result: R} to the pending STDIO call gives the caller R unchanged, *)
(* for every payload R.                                                    *)
(***************************************************************************)
C10_ResultUnchanged ==
    [][\A msg \in RelayFrames : \A c \in DOMAIN calls :
          ( /\ Receive(msg) /\ IsReply(msg)
            /\ TruthyResult(msg.result) /\ ~Truthy(msg.error)
            /\ calls[c].kind = "stdio" /\ Awaiting(calls[c])
            /\ msg.id = calls[c].id
            /\ Len(conns) = 1 /\ Sends(conns[1], c) # {} )
          => /\ calls'[c].outcome.kind = "CallToolResult"
             /\ calls'[c].outcome.value = msg.result]_vars

(***************************************************************************)
(* C11: when the extension reports an error for a request that was sent to *)
(* it, the caller that waits for that id receives an error outcome: an     *)
(* McpError on STDIO, an envelope with an error member on HTTP, and never  *)
(* a success payload.                                                      *)
(***************************************************************************)
IsErrorOutcome(o) ==
    \/ o.kind = "McpError"
    \/ o.kind = "envelope" /\ "error" \in DOMAIN o
    \/ o.kind = "response" /\ Truthy(o.response.error)

C11_ErrorReachesCaller ==
    [][\A msg \in ErrorFrames :
          Receive(msg)
          => \A c \in DOMAIN calls :
                ( /\ Awaiting(calls[c]) /\ c \in Range(listeners)
                  /\ calls[c].id = msg.id
                  /\ Len(conns) = 1 /\ Sends(conns[1], c) # {} )
                => IsErrorOutcome(calls'[c].outcome)]_vars

(***************************************************************************)
(* C12: an HTTP tools/call that names a tool absent from the registry, or  *)
(* whose arguments violate the tool's parameter schema, is answered with   *)
(* an error at once: no call and no waiter is created, and nothing is sent *)
(* to any WebSocket connection.                                            *)
(***************************************************************************)
C12_InvalidCallNotPublished ==
    [][\A json \in ToolsCallBodies :
          ( /\ json.name \notin toolRegistry \/ ~json.argsValid
            /\ Rpc(json, SendOk) )
          => /\ calls' = calls /\ listeners' = listeners /\ inbox' = inbox
             /\ httpResponse' # httpResponse
             /\ IsErrorOutcome(httpResponse')]_vars

(***************************************************************************)
(* C13: a reply whose id is the id of no pending call (an unknown id, or   *)
(* no id at all) is dropped silently: no call changes its outcome or its   *)
(* timer, and every pending call that had a waiter keeps it.               *)
(***************************************************************************)
Unmatched(msg) == \A c \in DOMAIN calls : Awaiting(calls[c]) => calls[c].id # msg.id

C13_UnmatchedReplyDropped ==
    [][\A msg \in RelayFrames :
          (IsReply(msg) /\ Unmatched(msg) /\ Receive(msg))
          => /\ calls' = calls
             /\ \A c \in Range(listeners) : Awaiting(calls[c]) => c \in Range(listeners')]_vars

(***************************************************************************)
(* C14: a frame whose method is client-ready is never dispatched as a      *)
(* reply: its delivery resolves no call, stops no timer, removes no waiter *)
(* and writes no scratch file, also when its id is that of a pending call. *)
(***************************************************************************)
Handshakes == {msg \in RelayFrames : msg.valid /\ msg.method = "client-ready"}

C14_HandshakeNotDispatched ==
    [][\A msg \in Handshakes :
          Receive(msg) => calls' = calls /\ listeners' = listeners /\ files' = files]_vars

\* a connection is open, and a call waits for the id that a handshake carries
C14_Witness ==
    /\ conns # << >>
    /\ \E c \in Range(listeners), msg \in Handshakes :
        /\ Awaiting(calls[c])
        /\ msg.id = calls[c].id
        /\ calls[c].id \notin files

(***************************************************************************)
(* C15: a frame that is not valid JSON is dropped: its delivery leaves the *)
(* connections, the calls with their timers, the waiters and the scratch   *)
(* files as they were, so that the frames that follow, on this and on      *)
(* every other connection, are handled as before.                          *)
(***************************************************************************)
C15_InvalidJsonDropped ==
    [][Receive(InvalidJson)
       => /\ conns' = conns /\ inbox' = inbox
          /\ calls' = calls /\ listeners' = listeners /\ files' = files]_vars

\* a connection is open while a STDIO call and an HTTP call wait, with
\* their listeners and their timers
C15_Witness ==
    /\ conns # << >>
    /\ \E c1, c2 \in Range(listeners) :
        /\ calls[c1].kind = "stdio" /\ calls[c2].kind # "stdio"
        /\ Awaiting(calls[c1]) /\ Awaiting(calls[c2])

(***************************************************************************)
(* C16: a disconnect removes exactly the closing connection from conns,    *)
(* keeping the others in their order, and leaves every call, its timer and *)
(* its waiter unchanged; a pending call that nobody answers then ends by   *)
(* its timeout.                                                            *)
(***************************************************************************)
C16_DisconnectKeepsCalls ==
    /\ [][Len(conns') < Len(conns)
          => /\ \E ws \in Range(conns) : conns' = SelectSeq(conns, LAMBDA w : w # ws)
             /\ Len(conns') = Len(conns) - 1
             /\ calls' = calls
             /\ listeners' = listeners]_vars
    /\ \A c \in 1..MaxCalls :
            (c \in DOMAIN calls /\ Awaiting(calls[c]))
                ~> (c \in DOMAIN calls /\ TimedOut(calls[c]))

\* the first connection has closed and the second, which was sent the
\* request, stayed and never answered: the call ended by its timeout
C16_Witness ==
    /\ conns = <<2>>
    /\ \E c \in Range(listeners) :
        /\ Sends(2, c) # {}
        /\ TimedOut(calls[c])

(***************************************************************************)
(* C17: the step that publishes a request calls ws.send for it exactly     *)
(* once on every connection that is in conns at that moment and on no      *)
(* other; no other step sends anything, and a connection that has closed   *)
(* is sent nothing.                                                        *)
(***************************************************************************)
C17_SentOncePerConnection ==
    [][\A w \in DOMAIN inbox :
          IF Len(calls') = Len(calls) + 1
          THEN IF w \in Range(conns)
               THEN /\ Len(inbox'[w]) = Len(inbox[w]) + 1
                    /\ SubSeq(inbox'[w], 1, Len(inbox[w])) = inbox[w]
                    /\ inbox'[w][Len(inbox'[w])].call = Len(calls')
                    /\ \A k \in DOMAIN inbox[w] : inbox[w][k].call # Len(calls')
               ELSE inbox[w] = << >> /\ inbox'[w] = << >>
          ELSE \/ inbox'[w] = inbox[w]
               \/ inbox'[w] = << >> /\ w \notin Range(conns')]_vars

\* two connections are open: one request was sent once to each of them, an
\* earlier one only to the connection that was open when it was published
C17_Witness ==
    /\ Len(conns) = 2
    /\ \E c1, c2 \in DOMAIN calls :
        /\ c1 < c2
        /\ Cardinality(Sends(conns[1], c1)) = 1 /\ Sends(conns[2], c1) = {}
        /\ Cardinality(Sends(conns[1], c2)) = 1 /\ Cardinality(Sends(conns[2], c2)) = 1

(***************************************************************************)
(* C18: a request posted to /rpc without an id is answered with status 400 *)
(* and has no other effect: no call, no timer and no waiter is created and *)
(* nothing is sent to any connection.                                      *)
(***************************************************************************)
C18_MissingIdIs400 ==
    [][\A json \in RpcBodies :
          (json.id = NoId /\ Rpc(json, SendOk))
          => /\ httpResponse'.kind = "http" /\ httpResponse'.status = 400
             /\ calls' = calls /\ listeners' = listeners
             /\ inbox' = inbox /\ conns' = conns /\ files' = files]_vars

\* /rpc answered 400 while a connection was open: nothing was published
C18_Witness ==
    /\ httpResponse.kind = "http" /\ httpResponse.status = 400
    /\ conns # << >>
    /\ calls = << >> /\ listeners = << >>
    /\ \A w \in DOMAIN inbox : inbox[w] = << >>

(***************************************************************************)
(* C19: over HTTP, tools/list is answered from the registry with no call   *)
(* on the bus; tools/call is published with a 25 s timer and, when no      *)
(* matching reply ends it, ends when the 25 s have elapsed with error code *)
(* -32000; any other method is published with a 5 s timer, returns the     *)
(* reply that carries its id if one arrives while it is pending, and       *)
(* otherwise ends when the 5 s have elapsed with error code -32001.        *)
(***************************************************************************)
C19_Published(json, ms) ==
    /\ Len(calls') = Len(calls) + 1
    /\ calls'[Len(calls')].id = json.id
    /\ Awaiting(calls'[Len(calls')])
    /\ calls'[Len(calls')].remaining = ms
    /\ \A w \in Range(conns) : Len(inbox'[w]) = Len(inbox[w]) + 1

C19_EndsWith(c, code) ==
    /\ calls'[c].remaining = 0 /\ calls'[c].timer = "fired"
    /\ calls'[c].outcome.kind = "envelope"
    /\ calls'[c].outcome.id = calls[c].id
    /\ calls'[c].outcome.error.code = code

C19_HttpDispatch ==
    [][/\ \A json \in RpcBodies :
            (json.body /\ json.id \in Ids /\ Rpc(json, SendOk))
            => CASE json.method = "tools/list" ->
                        /\ httpResponse' = [kind |-> "envelope", jsonrpc |-> "2.0",
                                            id |-> json.id, result |-> toolRegistry]
                        /\ calls' = calls /\ listeners' = listeners /\ inbox' = inbox
                 [] json.method = "tools/call" -> C19_Published(json, 25000)
                 [] OTHER -> C19_Published(json, 5000)
       /\ \A c \in DOMAIN calls :
            Awaiting(calls[c]) =>
                /\ \A msg \in BareFrames :
                      ( /\ calls[c].method # "tools/call" /\ msg.id = calls[c].id
                        /\ \A d \in DOMAIN calls : calls[d].id = calls[c].id => d = c
                        /\ Receive(msg) )
                      => calls'[c].outcome = ReplyOutcome(msg)
                /\ ( /\ calls'[c].outcome # Pending
                     /\ ~ \E msg \in BareFrames : msg.id = calls[c].id /\ Receive(msg) )
                   => IF calls[c].method = "tools/call"
                      THEN C19_EndsWith(c, -32000)
                      ELSE C19_EndsWith(c, -32001)]_vars

(***************************************************************************)
(* C20: at every moment, during the registrations and after them, the tool *)
(* names of the HTTP registry are the tool names registered on the STDIO   *)
(* server, and every answer to tools/list carries exactly those names.     *)
(***************************************************************************)
C20_SameToolNames ==
    /\ toolRegistry = serverTools
    /\ (httpResponse.kind = "envelope" /\ "result" \in DOMAIN httpResponse)
            => httpResponse.result = serverTools

\* tools/list was answered after all ten tools were registered
C20_Witness ==
    /\ Started
    /\ httpResponse.kind = "envelope"
    /\ httpResponse.result = Range(ToolDefinitions)
    /\ Cardinality(serverTools) = Len(ToolDefinitions)

(***************************************************************************)
(* C21: STDIO calls that are pending at the same time have pairwise        *)
(* different ids, and the delivery of a reply resolves the pending STDIO   *)
(* call whose id it carries, with the result of default_tool, and leaves   *)
(* every other pending STDIO call pending with its waiter, in whatever     *)
(* order the replies arrive.                                               *)
(***************************************************************************)
C21_StdioPipelines ==
    /\ [](\A c, d \in DOMAIN calls :
            ( /\ c # d
              /\ calls[c].kind = "stdio" /\ calls[d].kind = "stdio"
              /\ Awaiting(calls[c]) /\ Awaiting(calls[d]) )
            => calls[c].id # calls[d].id)
    /\ [][\A msg \in RelayFrames :
            (IsReply(msg) /\ Receive(msg))
            => \A c \in DOMAIN calls :
                  (calls[c].kind = "stdio" /\ Awaiting(calls[c]))
                  => IF calls[c].id = msg.id
                     THEN calls'[c].outcome = CallToolResult(calls[c].method, msg)
                     ELSE calls'[c] = calls[c] /\ c \in Range(listeners')]_vars

(***************************************************************************)
(* C22: a handler registered with bus.on_reply_from_extension(E, handler)  *)
(* is called only for the replies whose __event is E: every call of a      *)
(* handler was made for an emitted reply that names the handler's event.   *)
(***************************************************************************)
C22_OnlyMatchingHandler ==
    \A r \in invocations : r.emitted = busListeners[r.handler]

(***************************************************************************)
(* C23: the id that default_tool generates for a STDIO call differs from   *)
(* the id of every call that is pending at that moment, and from the id    *)
(* generated for the STDIO call before it.                                 *)
(***************************************************************************)
C23_FreshId ==
    [][   ( /\ Len(calls') = Len(calls) + 1
            /\ calls'[Len(calls')].kind = "stdio" )
          => /\ \A c \in DOMAIN calls :
                    Awaiting(calls[c]) => calls[c].id # calls'[Len(calls')].id
             /\ \A c \in DOMAIN calls :
                    ( /\ calls[c].kind = "stdio"
                      /\ \A d \in DOMAIN calls : d > c => calls[d].kind # "stdio" )
                    => calls[c].id # calls'[Len(calls')].id]_vars

(***************************************************************************)
(* C24: strip_internal_fields(obj) returns an object whose keys are        *)
(* exactly the keys of obj that do not start with two underscores, each    *)
(* with the value it has in obj; it is the empty object when obj is empty  *)
(* or has only such keys.                                                  *)
(***************************************************************************)
C24_Internal(key) == Len(key) >= 2 /\ key[1] = "_" /\ key[2] = "_"

C24_StripsInternalFields ==
    stripped # NotCalled =>
        /\ DOMAIN stripped.result = {key \in DOMAIN stripped.arg : ~C24_Internal(key)}
        /\ \A key \in DOMAIN stripped.result : stripped.result[key] = stripped.arg[key]
        /\ (\A key \in DOMAIN stripped.arg : C24_Internal(key)) => stripped.result = << >>

C24_Witness ==
    /\ stripped # NotCalled
    /\ \E key \in DOMAIN stripped.arg : C24_Internal(key)
    /\ <<"_", "a">> \in DOMAIN stripped.result
    /\ <<"a", "_", "_">> \in DOMAIN stripped.result

(***************************************************************************)
(* C25: strip_internal_fields does not mutate its argument: after the call *)
(* obj has the keys and values it was passed with, internal ones included. *)
(***************************************************************************)
C25_ArgumentUntouched ==
    stripped # NotCalled => obj = stripped.arg

C25_Witness ==
    /\ stripped # NotCalled
    /\ \E key \in DOMAIN obj : C24_Internal(key)
    /\ stripped.result # obj

(***************************************************************************)
(* C26: for every STDIO and HTTP call the reply listener and the timeout   *)
(* timer are registered before the request is published.  A reply emitted  *)
(* inside the publication resolves the new call and clears its timer; a    *)
(* call that is published without such a reply is left with its listener   *)
(* registered and its timer armed, and the reply with its id that arrives  *)
(* next resolves it.                                                       *)
(***************************************************************************)
C26_OwnOutcome(call, reply) ==
    IF call.kind = "stdio" THEN CallToolResult(call.method, reply) ELSE ReplyOutcome(reply)

C26_WaiterBeforePublish ==
    [][ /\ ( /\ Len(calls') = Len(calls) + 1
            /\ \/ StdioCallWith(CalledTools, SendOk, {TRUE})
               \/ \E json \in BusBodies : RpcWith(json, SendOk, {TRUE}) )
          => LET c == Len(calls')
             IN  /\ calls'[c].outcome
                      = C26_OwnOutcome(calls'[c], sendReply(calls'[c].id, CellPayload))
                 /\ calls'[c].timer = "cleared"
        /\ ( /\ Len(calls') = Len(calls) + 1
            /\ \/ StdioCall(CalledTools, SendOk)
               \/ \E json \in BusBodies : Rpc(json, SendOk) )
          => LET c == Len(calls')
             IN  /\ Awaiting(calls'[c])
                 /\ c \in Range(listeners')
        /\ \A msg \in SyncFrames :
              (IsReply(msg) /\ Receive(msg))
              => \A c \in Range(listeners) :
                    (Awaiting(calls[c]) /\ calls[c].id = msg.id)
                    => /\ calls'[c].outcome = C26_OwnOutcome(calls[c], msg)
                       /\ calls'[c].timer = "cleared" ]_vars

\* a STDIO call and an HTTP call were answered inside the publication of
\* their requests: no reply has come over a WebSocket
C26_Witness ==
    /\ files = {}
    /\ \E c, d \in DOMAIN calls :
          /\ calls[c].kind = "stdio" /\ calls[d].kind = "tools/call"
          /\ calls[c].outcome = C26_OwnOutcome(calls[c], sendReply(calls[c].id, CellPayload))
          /\ calls[d].outcome = C26_OwnOutcome(calls[d], sendReply(calls[d].id, CellPayload))
          /\ calls[c].timer = "cleared" /\ calls[d].timer = "cleared"

(***************************************************************************)
(* C27: for every tool of the catalog, a request for it that a connected   *)
(* extension receives with its graph ready produces a reply with the id of *)
(* the request; so does every queued request when the graph becomes ready  *)
(* on a connected extension.                                               *)
(***************************************************************************)
C27_EveryToolAnswered ==
    [][ /\ (ExtensionReceives /\ graph)
           => /\ Len(wire') = Len(wire) + 1
              /\ wire'[Len(wire')].id = calls[NextRequest].id
        /\ (GraphReady(TRUE) /\ conns # << >>)
           => /\ Len(wire') = Len(wire) + Len(queue)
              /\ \A i \in DOMAIN queue : wire'[Len(wire) + i].id = queue[i].id ]_vars

(***************************************************************************)
(* C29: a request received while the graph is not ready is queued; when    *)
(* the graph becomes ready every queued request is handled once, in        *)
(* arrival order, and the queue is empty from then on, so that a request   *)
(* received later is handled after all of them.                            *)
(***************************************************************************)
C29_QueuedThenFlushed ==
    /\ [](graph => queue = << >>)
    /\ [][ /\ \A payload \in ExtRequests :
                /\ (Arrive(payload) /\ ~graph)
                   => queue' = Append(queue, payload) /\ handled' = handled
                /\ (Arrive(payload) /\ graph)
                   => handled' = Append(handled, payload)
           /\ (~graph /\ graph')
                => handled' = handled \o queue /\ queue' = << >> ]_vars

(***************************************************************************)
(* C28: with a server that accepts every connection and closes none, after *)
(* the socket drops and restartMcpBridge() calls the bridge ends up with   *)
(* one open socket and stays connected; a reconnect timer never closes an  *)
(* open socket, and no close event leaves isConnected false while the      *)
(* socket the bridge holds is open.                                        *)
(***************************************************************************)
C28_Connected == bridgeWs # 0 /\ sockets[bridgeWs] = "open" /\ isConnected

C28_ReconnectSettles ==
    /\ <>[]C28_Connected
    /\ [][ /\ ReconnectTimer
              => \A s \in DOMAIN sockets : sockets[s] = "open" => sockets'[s] = "open"
           /\ (\E s \in DOMAIN sockets : SocketClosed(s) \/ SocketDrops(s))
              => ~(bridgeWs' # 0 /\ sockets'[bridgeWs'] = "open") ]_vars

(***************************************************************************)
(* C30: /rpc answers 400 'Missing ID' only to a request without a body or  *)
(* without an id field; an envelope that carries an id, the empty string   *)
(* included, is never rejected that way.                                   *)
(***************************************************************************)
C30_Rejected ==
    /\ httpResponse' = [kind |-> "http", status |-> 400, error |-> "Missing ID"]
    /\ calls' = calls

C30_IdPresentNever400 ==
    [][\A json \in RpcBodies :
          (Rpc(json, SendOk) /\ C30_Rejected) => (~json.body \/ json.id = NoId)]_vars

====
